---- MODULE Spec2Model ----
(***************************************************************************)
(* ppa: a command line password store.  The store is one file,             *)
(* ~/.ppa.bin, holding a 12-byte nonce followed by the AES-256-GCM         *)
(* encryption of the JSON text of a Vec<Entry>.  src/src/util.rs holds     *)
(* the store layer (path_to_store, store_exists, load_store, write_store), *)
(* src/src/main.rs the subcommands (init, add, search, copy, remove).      *)
(*                                                                         *)
(* Text is modelled as sequences of one-character strings; a byte of the   *)
(* file is a record.  AES-256-GCM is modelled as an ideal AEAD: the        *)
(* ciphertext byte at a position is a symbolic value of key, nonce,        *)
(* position and plaintext byte, and the tag is a symbolic value of key,    *)
(* nonce and the whole ciphertext, so that no forgery exists.              *)
(***************************************************************************)
EXTENDS Integers, Sequences, FiniteSets, TLC

\* ------------------------------------------------------------------ bounds
\* Longest entry collection built by the add subcommand or handed to write_store.
MaxEntries == 2
\* Number of distinct nonces thread_rng() is allowed to produce.
NumNonces == 2
\* Number of direct write_store calls in one behaviour of SpecStore.
MaxSaves == 2
\* Longest entry collection of a file that is tampered with in SpecTamper.
MaxTamperedEntries == 1

\* ------------------------------------------------------- program constants
\* [u8; 12] nonce, take(12) / skip(12).
NonceLen == 12
\* prompt_password: encryption_password.len() == 32 (the AES-256 key).
KeyLen == 32
\* Length of the GCM authentication tag appended to the ciphertext.
TagLen == 16

Procs == {1, 2}

\* ------------------------------------------------------------------ inputs
Quote == "\""
Backslash == "\\"

\* What the user may type at the "Store password" prompt.
PasswordTyped ==
  {"aaaaaaaaaaaaaaaaaaaaaaaaaaaaaaaa", "bbbbbbbbbbbbbbbbbbbbbbbbbbbbbbbb", "short"}

\* 32-byte passwords: the only ones main hands to load_store / write_store.
Passwords == {p \in PasswordTyped : Len(p) = KeyLen}

\* The names given to add, copy and remove; the entry password typed at
\* the add subcommand's prompt.
NameInputs == {<<"a">>, <<"A">>, <<"b">>}
EntryPasswordInputs == {<<Backslash>>}

\* The command lines of add: --name, --username, --comments (an Option: <<>>
\* is None, <<s>> is Some(s)).
AddInputs ==
  {[name |-> <<"a">>, username |-> <<"u", Quote>>, comments |-> <<>>],
   [name |-> <<"A">>, username |-> <<>>, comments |-> << <<Backslash, Quote>> >>],
   [name |-> <<"b">>, username |-> <<"u">>, comments |-> << <<>> >>]}

\* The nonces the random generator can return: NonceLen bytes each.
Byte(b) == [raw |-> b]
Nonces == {[i \in 1..NonceLen |-> Byte(b)] : b \in 1..NumNonces}

\* ------------------------------------------------------------- util::Entry
Entry(name, username, password, comments) ==
  [name |-> name, username |-> username, password |-> password, comments |-> comments]

unwrap_or_default(opt) == IF opt = <<>> THEN <<>> ELSE opt[1]

\* The entries the add subcommand can build.
EntryValues ==
  {Entry(a.name, a.username, p, unwrap_or_default(a.comments)) :
     a \in AddInputs, p \in EntryPasswordInputs}

RECURSIVE SeqsUpTo(_, _)
SeqsUpTo(S, n) ==
  IF n = 0 THEN {<<>>}
  ELSE LET shorter == SeqsUpTo(S, n - 1)
       IN shorter \cup {Append(s, x) : s \in {t \in shorter : Len(t) = n - 1}, x \in S}

\* The entry collections handed to write_store.
Collections == SeqsUpTo(EntryValues, MaxEntries)

\* ----------------------------------------------- serde_json::to_string
\* A JSON string: the text between quotes, with quote and backslash escaped.
RECURSIVE Escape(_)
Escape(s) ==
  IF s = <<>> THEN <<>>
  ELSE (IF Head(s) \in {Quote, Backslash} THEN <<Backslash, Head(s)>> ELSE <<Head(s)>>)
       \o Escape(Tail(s))

SerString(s) == <<Quote>> \o Escape(s) \o <<Quote>>

KeyName == <<"n", "a", "m", "e">>
KeyUsername == <<"u", "s", "e", "r", "n", "a", "m", "e">>
KeyPassword == <<"p", "a", "s", "s", "w", "o", "r", "d">>
KeyComments == <<"c", "o", "m", "m", "e", "n", "t", "s">>

SerField(key, value) == SerString(key) \o <<":">> \o SerString(value)

\* derive(Serialize) for Entry: a JSON object, fields in declaration order.
SerEntry(e) ==
  <<"{">> \o SerField(KeyName, e.name) \o <<",">>
          \o SerField(KeyUsername, e.username) \o <<",">>
          \o SerField(KeyPassword, e.password) \o <<",">>
          \o SerField(KeyComments, e.comments) \o <<"}">>

RECURSIVE SerEntries(_)
SerEntries(es) ==
  IF es = <<>> THEN <<>>
  ELSE IF Len(es) = 1 THEN SerEntry(es[1])
  ELSE SerEntry(Head(es)) \o <<",">> \o SerEntries(Tail(es))

\* serde_json::to_string(&entries): a JSON array of the entries, in order.
to_string(es) == <<"[">> \o SerEntries(es) \o <<"]">>

\* ------------------------------------------------ serde_json::from_str
\* A parser for the compact JSON text to_string produces (the only plaintext
\* an authenticated decryption can yield); anything else is a decode error.
\* The text is split into tokens (punctuation, strings), and the tokens must
\* be an array of objects holding the four fields in declaration order.
ParseFail == [ok |-> FALSE, val |-> <<>>, next |-> 0]
ParseOk(v, n) == [ok |-> TRUE, val |-> v, next |-> n]

At(s, i) == IF i >= 1 /\ i <= Len(s) THEN s[i] ELSE "EOF"

\* The characters of a string up to its closing quote, unescaped; i is past
\* the opening quote.
RECURSIVE ParseStringBody(_, _, _)
ParseStringBody(s, i, acc) ==
  IF i > Len(s) THEN ParseFail
  ELSE IF s[i] = Quote THEN ParseOk(acc, i + 1)
  ELSE IF s[i] = Backslash
    THEN IF At(s, i + 1) \in {Quote, Backslash}
           THEN ParseStringBody(s, i + 2, Append(acc, s[i + 1]))
           ELSE ParseFail
  ELSE ParseStringBody(s, i + 1, Append(acc, s[i]))

Punctuation == {"[", "]", "{", "}", ",", ":"}
Tok(c) == [p |-> c]
Str(v) == [str |-> v]
IsStr(t) == DOMAIN t = {"str"}

RECURSIVE Lex(_, _, _)
RECURSIVE LexString(_, _, _)
Lex(s, i, acc) ==
  IF i > Len(s) THEN ParseOk(acc, i)
  ELSE IF s[i] \in Punctuation THEN Lex(s, i + 1, Append(acc, Tok(s[i])))
  ELSE IF s[i] = Quote THEN LexString(s, acc, ParseStringBody(s, i + 1, <<>>))
  ELSE ParseFail
LexString(s, acc, r) ==
  IF r.ok THEN Lex(s, r.next, Append(acc, Str(r.val))) ELSE ParseFail

\* {"name":S,"username":S,"password":S,"comments":S} at tokens b .. b+16.
IsEntryAt(t, b) ==
  /\ t[b] = Tok("{")
  /\ t[b + 1] = Str(KeyName) /\ t[b + 2] = Tok(":") /\ IsStr(t[b + 3])
  /\ t[b + 4] = Tok(",")
  /\ t[b + 5] = Str(KeyUsername) /\ t[b + 6] = Tok(":") /\ IsStr(t[b + 7])
  /\ t[b + 8] = Tok(",")
  /\ t[b + 9] = Str(KeyPassword) /\ t[b + 10] = Tok(":") /\ IsStr(t[b + 11])
  /\ t[b + 12] = Tok(",")
  /\ t[b + 13] = Str(KeyComments) /\ t[b + 14] = Tok(":") /\ IsStr(t[b + 15])
  /\ t[b + 16] = Tok("}")

EntryAt(t, b) == Entry(t[b + 3].str, t[b + 7].str, t[b + 11].str, t[b + 15].str)

\* An array of n >= 1 objects: "[", then n objects of 17 tokens, each followed
\* by "," or, the last one, by "]".
IsArrayOf(t, n) ==
  /\ n >= 1
  /\ Len(t) = 18 * n + 1
  /\ t[1] = Tok("[")
  /\ \A j \in 1..n :
       /\ IsEntryAt(t, 18 * j - 16)
       /\ t[18 * j + 1] = (IF j = n THEN Tok("]") ELSE Tok(","))

FromTokens(t) ==
  IF t = <<Tok("["), Tok("]")>> THEN ParseOk(<<>>, 0)
  ELSE IF IsArrayOf(t, (Len(t) - 1) \div 18)
    THEN ParseOk([j \in 1..((Len(t) - 1) \div 18) |-> EntryAt(t, 18 * j - 16)], 0)
  ELSE ParseFail

FromLex(lx) == IF lx.ok THEN FromTokens(lx.val) ELSE ParseFail

\* serde_json::from_str::<Vec<Entry>>: [ok, val].
from_str(s) == FromLex(Lex(s, 1, <<>>))

\* ------------------------------------------------------ Aes256Gcm (ideal)
\* An ideal AEAD: ciphertext byte i is a symbolic value of (key, nonce, i,
\* plaintext byte); the tag is a symbolic value of (key, nonce, ciphertext).
\* NonceName and Digest are injective short names of a nonce and of a
\* ciphertext under (key, nonce), used inside the symbolic values.
NonceName(nonce) ==
  IF nonce \in Nonces THEN [id |-> nonce[1].raw] ELSE [other |-> nonce]

EncByte(key, nn, i, c) == [k |-> key, n |-> nn, i |-> i, c |-> c]

IsEncByte(b, key, nn, i) ==
  /\ DOMAIN b = {"k", "n", "i", "c"}
  /\ b.k = key /\ b.n = nn /\ b.i = i

Digest(key, nn, ct) ==
  IF \A i \in 1..Len(ct) : IsEncByte(ct[i], key, nn, i)
    THEN [pt |-> [i \in 1..Len(ct) |-> ct[i].c]]
    ELSE [raw |-> ct]

\* The tag as a whole is an injective function of (key, nonce, ciphertext): its
\* first byte carries the digest, the others only (key, nonce, j).
Tag(key, nn, digest) ==
  [j \in 1..TagLen |-> IF j = 1 THEN [k |-> key, n |-> nn, m |-> digest, j |-> j]
                                ELSE [k |-> key, n |-> nn, j |-> j]]

\* cipher.encrypt(&nonce, plaintext): the ciphertext with the tag appended.
encrypt(key, nonce, pt) ==
  LET nn == NonceName(nonce)
      ct == [i \in 1..Len(pt) |-> EncByte(key, nn, i, pt[i])]
      digest == Digest(key, nn, ct)
  IN ct \o Tag(key, nn, digest)

\* cipher.decrypt(&nonce, body): [ok, pt]; fails on a body shorter than the
\* tag and on a tag that does not authenticate the ciphertext.
decrypt(key, nonce, body) ==
  IF Len(body) < TagLen THEN [ok |-> FALSE, pt |-> <<>>]
  ELSE LET nn == NonceName(nonce)
           ct == SubSeq(body, 1, Len(body) - TagLen)
           tag == SubSeq(body, Len(body) - TagLen + 1, Len(body))
           digest == Digest(key, nn, ct)
       IN IF tag = Tag(key, nn, digest)
            THEN [ok |-> TRUE, pt |-> [i \in 1..Len(ct) |-> ct[i].c]]
            ELSE [ok |-> FALSE, pt |-> <<>>]

\* ---------------------------------------------------------------- util.rs
\* iter().take(n) and iter().skip(n), collected.
take(s, n) == SubSeq(s, 1, IF n < Len(s) THEN n ELSE Len(s))
skip(s, n) == IF n >= Len(s) THEN <<>> ELSE SubSeq(s, n + 1, Len(s))

\* store_exists: [ok, exists]; an error when the home directory is unknown.
store_exists(homeOk, exists) ==
  IF ~homeOk THEN [ok |-> FALSE, exists |-> FALSE] ELSE [ok |-> TRUE, exists |-> exists]

Result(kind, es) == [kind |-> kind, entries |-> es]

\* The end of load_store: the decryption error is mapped, then the text is
\* parsed.
AfterParse(parsed) ==
  IF ~parsed.ok THEN Result("DecodeError", <<>>) ELSE Result("Ok", parsed.val)

\* Variant: a failed decryption is not reported; the plaintext is parsed anyway.
AfterDecrypt_Unchecked(decrypted) == AfterParse(from_str(decrypted.pt))

AfterDecrypt(decrypted) ==
  IF ~decrypted.ok THEN Result("DecryptError", <<>>) ELSE AfterParse(from_str(decrypted.pt))

\* Variant: a missing file is read as an empty store.
load_store_MissingIsEmpty(homeOk, exists, bytes, readOk, password) ==
  IF ~homeOk THEN Result("PathError", <<>>)
  ELSE IF ~exists THEN Result("Ok", <<>>)
  ELSE IF ~readOk THEN Result("IOError", <<>>)
  ELSE IF Len(password) # KeyLen THEN Result("Panic", <<>>)
  ELSE IF Len(take(bytes, NonceLen)) # NonceLen THEN Result("Panic", <<>>)
  ELSE AfterDecrypt(decrypt(password, take(bytes, NonceLen), skip(bytes, NonceLen)))

\* load_store(encryption_password) on the file (exists, bytes); homeOk and
\* readOk are the environment's answers to home_dir() and fs::read.
\* GenericArray::from_slice panics on a slice of the wrong length.
load_store(homeOk, exists, bytes, readOk, password) ==
  IF ~homeOk THEN Result("PathError", <<>>)
  ELSE IF ~exists THEN Result("NotFound", <<>>)
  ELSE IF ~readOk THEN Result("IOError", <<>>)
  ELSE IF Len(password) # KeyLen THEN Result("Panic", <<>>)
  ELSE IF Len(take(bytes, NonceLen)) # NonceLen THEN Result("Panic", <<>>)
  ELSE AfterDecrypt(decrypt(password, take(bytes, NonceLen), skip(bytes, NonceLen)))

\* Variant: the nonce is written behind the ciphertext.
to_disk_NonceLast(nonce, ciphertext) == ciphertext \o nonce

\* nonce.iter().chain(ciphertext.iter()): the bytes written to disk.
to_disk(nonce, ciphertext) == nonce \o ciphertext

\* What fs::write can do: succeed, fail to open the file (nothing changes), or
\* fail after File::create truncated it and `at` bytes were written.
IoOk == [fail |-> "none", at |-> 0]
IoOpenFails == [fail |-> "open", at |-> 0]
IoWriteFails(n) == [fail |-> "write", at |-> n]
IoOutcomes == {IoOk, IoOpenFails} \cup {IoWriteFails(n) : n \in {0, NonceLen - 1, NonceLen + 1}}

\* Variant: the file is opened for appending, not truncated.
fs_write_Append(exists, bytes, data, io) ==
  IF io.fail = "open" THEN [ok |-> FALSE, exists |-> exists, bytes |-> bytes]
  ELSE IF io.fail = "write" THEN [ok |-> FALSE, exists |-> TRUE, bytes |-> bytes \o take(data, io.at)]
  ELSE [ok |-> TRUE, exists |-> TRUE, bytes |-> bytes \o data]

\* fs::write(path, data): File::create (create or truncate), then write_all.
fs_write(exists, bytes, data, io) ==
  IF io.fail = "open" THEN [ok |-> FALSE, exists |-> exists, bytes |-> bytes]
  ELSE IF io.fail = "write" THEN [ok |-> FALSE, exists |-> TRUE, bytes |-> take(data, io.at)]
  ELSE [ok |-> TRUE, exists |-> TRUE, bytes |-> data]

\* What write_store hands to fs::write for (entries, password, nonce): the JSON
\* text of the entries, encrypted, behind the nonce.
DiskImageOf(es, password, nonce) ==
  to_disk(nonce, encrypt(password, nonce, to_string(es)))

\* DiskImageOf, computed once for every input of the model.
DiskImage ==
  [es \in Collections, password \in Passwords, nonce \in Nonces |->
     DiskImageOf(es, password, nonce)]

WriteResult(w) ==
  [kind |-> IF w.ok THEN "Ok" ELSE "IOError", exists |-> w.exists, bytes |-> w.bytes]

\* Variant: every call encrypts under one fixed nonce.
write_store_FixedNonce(homeOk, exists, bytes, es, password, nonce, io) ==
  IF ~homeOk THEN [kind |-> "PathError", exists |-> exists, bytes |-> bytes]
  ELSE IF Len(password) # KeyLen THEN [kind |-> "Panic", exists |-> exists, bytes |-> bytes]
  ELSE WriteResult(fs_write(exists, bytes,
                            DiskImage[es, password, CHOOSE n \in Nonces : TRUE], io))

\* write_store(entries, encryption_password) on the file (exists, bytes), with
\* the nonce the generator returned: [kind, exists, bytes] after the call.
write_store(homeOk, exists, bytes, es, password, nonce, io) ==
  IF ~homeOk THEN [kind |-> "PathError", exists |-> exists, bytes |-> bytes]
  ELSE IF Len(password) # KeyLen THEN [kind |-> "Panic", exists |-> exists, bytes |-> bytes]
  ELSE WriteResult(fs_write(exists, bytes, DiskImage[es, password, nonce], io))

\* ------------------------------------------------------------------- state
VARIABLES
  fileExists,   \* ~/.ppa.bin is present
  fileBytes,    \* its content (<<>> while absent)
  clipboard,    \* the system clipboard
  pc,           \* per invocation: where main is
  cmd,          \* per invocation: the subcommand and its arguments
  epw,          \* per invocation: encryption_password
  entries,      \* per invocation: the entries vector
  outcome,      \* per invocation: what main reported
  loaded,       \* history: what load_store returned to the invocation
  pre,          \* history: the file when the invocation started
  stale,        \* history: another invocation wrote the file since this one loaded
  saved,        \* history: the last write_store call that returned Ok (writer 0: a direct call)
  saves,        \* history: number of direct write_store calls
  last          \* history: the last store-layer call and its result

procVars == <<pc, cmd, epw, entries, outcome, loaded, pre, stale>>
fileVars == <<fileExists, fileBytes>>
vars == <<fileExists, fileBytes, clipboard, pc, cmd, epw, entries, outcome,
          loaded, pre, stale, saved, saves, last>>

NoCmd == [kind |-> "none", name |-> <<>>, username |-> <<>>, comments |-> <<>>,
          password |-> <<>>, term |-> <<>>, what |-> "none"]
NoFile == [exists |-> FALSE, bytes |-> <<>>]
NoPrev == [valid |-> FALSE, pw |-> "", nonce |-> <<>>, replaced |-> FALSE,
           same |-> FALSE, bytes |-> <<>>]
NoSave == [valid |-> FALSE, entries |-> <<>>, pw |-> "", nonce |-> <<>>, bytes |-> <<>>,
           writer |-> 0, prev |-> NoPrev]
NoCall == [op |-> "none", pw |-> "", kind |-> "none", entries |-> <<>>, changed |-> FALSE]

Init ==
  /\ fileExists = FALSE
  /\ fileBytes = <<>>
  /\ clipboard = <<>>
  /\ pc = [p \in Procs |-> "idle"]
  /\ cmd = [p \in Procs |-> NoCmd]
  /\ epw = [p \in Procs |-> ""]
  /\ entries = [p \in Procs |-> <<>>]
  /\ outcome = [p \in Procs |-> "none"]
  /\ loaded = [p \in Procs |-> <<>>]
  /\ pre = [p \in Procs |-> NoFile]
  /\ stale = [p \in Procs |-> FALSE]
  /\ saved = NoSave
  /\ saves = 0
  /\ last = NoCall

\* The file holds exactly what the last successful write_store wrote.
Intact == saved.valid /\ fileExists /\ fileBytes = saved.bytes

\* The history after a write_store call that returned `kind` and left `bytes`:
\* a successful call remembers the one before it (prev.replaced: that one's
\* file was still in place; prev.same: it had the same entries and password);
\* a failed call that damaged the file ends the history.
SavedAfter(kind, es, password, nonce, bytes, changed) ==
  IF kind = "Ok"
    THEN [valid |-> TRUE, entries |-> es, pw |-> password, nonce |-> nonce, bytes |-> bytes,
          writer |-> 0,
          prev |-> IF ~saved.valid THEN NoPrev
                   ELSE LET same == saved.entries = es /\ saved.pw = password
                        IN [valid |-> TRUE, pw |-> saved.pw, nonce |-> saved.nonce,
                            replaced |-> Intact, same |-> same,
                            bytes |-> IF same THEN saved.bytes ELSE <<>>]]
  ELSE IF changed THEN NoSave
  ELSE saved

\* The history after a write_store call made by invocation p of main: no
\* predecessor is kept.
SavedByMain(p, kind, es, password, nonce, bytes, changed) ==
  IF kind = "Ok"
    THEN [valid |-> TRUE, entries |-> es, pw |-> password, nonce |-> nonce, bytes |-> bytes,
          writer |-> p, prev |-> NoPrev]
  ELSE IF changed THEN NoSave
  ELSE saved

\* What the environment does to one call: the home directory is unknown, or
\* fs::write / fs::read behaves as in IoOutcomes.
EnvOutcomes == {[homeOk |-> FALSE, io |-> IoOk]} \cup {[homeOk |-> TRUE, io |-> io] : io \in IoOutcomes}
ReadOutcomes == {[homeOk |-> FALSE, readOk |-> TRUE], [homeOk |-> TRUE, readOk |-> FALSE],
                 [homeOk |-> TRUE, readOk |-> TRUE]}

\* ------------------------------------------------- the store layer, called
\* write_store(es, password) called directly.
Save(es, password, nonce, env) ==
  LET w == write_store(env.homeOk, fileExists, fileBytes, es, password, nonce, env.io)
      changed == w.exists # fileExists \/ w.bytes # fileBytes
  IN /\ saves < MaxSaves
     /\ saves' = saves + 1
     /\ fileExists' = w.exists
     /\ fileBytes' = w.bytes
     /\ saved' = SavedAfter(w.kind, es, password, nonce, w.bytes, changed)
     /\ last' = [op |-> "save", pw |-> password, kind |-> w.kind, entries |-> <<>>,
                 changed |-> changed]
     /\ UNCHANGED <<clipboard, procVars>>

\* load_store(password) called directly.
Load(password, env) ==
  LET r == load_store(env.homeOk, fileExists, fileBytes, env.readOk, password)
  IN /\ last' = [op |-> "load", pw |-> password, kind |-> r.kind, entries |-> r.entries,
                 changed |-> FALSE]
     /\ UNCHANGED <<fileVars, clipboard, procVars, saved, saves>>

\* Something outside the program changes one byte of the ciphertext region
\* (offset NonceLen to the end) of a file write_store wrote.
Tamper(pos, val) ==
  /\ Intact
  /\ pos \in (NonceLen + 1)..Len(fileBytes)
  /\ val # fileBytes[pos]
  /\ fileBytes' = [fileBytes EXCEPT ![pos] = val]
  /\ last' = [NoCall EXCEPT !.op = "tamper"]
  /\ UNCHANGED <<fileExists, clipboard, procVars, saved, saves>>

\* The values a tampered byte takes: a byte no encryption produced, the first
\* ciphertext byte and the last tag byte of the file.
TamperValues ==
  IF Len(fileBytes) > NonceLen
    THEN {Byte(0), fileBytes[NonceLen + 1], fileBytes[Len(fileBytes)]}
    ELSE {}

StoreNext ==
  \/ \E es \in Collections, password \in Passwords, nonce \in Nonces, env \in EnvOutcomes :
       Save(es, password, nonce, env)
  \/ \E password \in Passwords, env \in ReadOutcomes :
       Load(password, env)

SpecStore == Init /\ [][StoreNext]_vars

\* One write_store call, then tampering and loads.
TamperNext ==
  \/ \E es \in SeqsUpTo(EntryValues, MaxTamperedEntries), password \in Passwords,
        nonce \in Nonces :
       saves = 0 /\ Save(es, password, nonce, [homeOk |-> TRUE, io |-> IoOk])
  \/ \E pos \in 1..Len(fileBytes), val \in TamperValues :
       Tamper(pos, val)
  \/ \E password \in Passwords, env \in ReadOutcomes :
       Load(password, env)

SpecTamper == Init /\ [][TamperNext]_vars

\* ------------------------------------------------------------------ main.rs
\* str::to_lowercase, on the letters of the model's inputs.
LowerChar(c) == IF c = "A" THEN "a" ELSE IF c = "B" THEN "b" ELSE c
to_lowercase(str) == [i \in 1..Len(str) |-> LowerChar(str[i])]

\* prompt_password(confirm, require_length): the loop ends with the first typed
\* password that passes the length check; `typed` is what the user may type.
prompt_password(typed, require_length) ==
  {t \in typed : ~require_length \/ Len(t) = KeyLen}

\* prompt.interact() fails (main exits), or the loop returns a password.
StorePrompts ==
  {[ok |-> FALSE, pw |-> ""]}
    \cup {[ok |-> TRUE, pw |-> t] : t \in prompt_password(PasswordTyped, TRUE)}
EntryPrompts ==
  {[ok |-> FALSE, pw |-> <<>>]}
    \cup {[ok |-> TRUE, pw |-> t] : t \in prompt_password(EntryPasswordInputs, FALSE)}

\* The command lines: Options.command.
Cmd(kind) == [NoCmd EXCEPT !.kind = kind]
AddCommands ==
  {[Cmd("add") EXCEPT !.name = a.name, !.username = a.username, !.comments = a.comments] :
     a \in AddInputs}
SearchCommands == {[Cmd("search") EXCEPT !.term = t] : t \in {<<>>, << <<"a">> >>}}
CopyCommands ==
  {[Cmd("copy") EXCEPT !.name = n, !.what = w] : n \in NameInputs, w \in {"Username", "Password"}}
RemoveCommands == {[Cmd("remove") EXCEPT !.name = n] : n \in NameInputs}
Commands ==
  {Cmd("init"), Cmd("none")} \cup AddCommands \cup SearchCommands \cup CopyCommands
    \cup RemoveCommands

\* Variant: the filter compares names as they are.
RemoveFilter_CaseSensitive(es, name) == SelectSeq(es, LAMBDA entry : entry.name # name)

\* The filter of the remove subcommand.
RemoveFilter(es, name) ==
  SelectSeq(es, LAMBDA entry : to_lowercase(entry.name) # to_lowercase(name))

\* The entry the copy subcommand's loop stops at: the first one whose name
\* matches, 0 when there is none.
CopyMatch(es, name) ==
  IF \E i \in 1..Len(es) : to_lowercase(es[i].name) = to_lowercase(name)
    THEN CHOOSE i \in 1..Len(es) :
           /\ to_lowercase(es[i].name) = to_lowercase(name)
           /\ \A j \in 1..(i - 1) : to_lowercase(es[j].name) # to_lowercase(name)
    ELSE 0

\* main returns or calls process::exit.
Exit(p, out) ==
  /\ pc' = [pc EXCEPT ![p] = "done"]
  /\ outcome' = [outcome EXCEPT ![p] = out]

\* A write_store call of invocation p: the file, the history, and the other
\* invocations that hold entries loaded before it.
MainWrites(p, w, es, nonce) ==
  /\ fileExists' = w.exists
  /\ fileBytes' = w.bytes
  /\ saved' = SavedByMain(p, w.kind, es, epw[p], nonce, w.bytes,
                          w.exists # fileExists \/ w.bytes # fileBytes)
  /\ stale' = [q \in Procs |->
                 IF q # p /\ pc[q] = "command" /\ (w.exists # fileExists \/ w.bytes # fileBytes)
                   THEN TRUE ELSE stale[q]]

\* The program is started: Options::from_args().
Start(p, c) ==
  /\ pc[p] \in {"idle", "done"}
  /\ pc' = [pc EXCEPT ![p] = IF c.kind = "init" THEN "init" ELSE "load"]
  /\ cmd' = [cmd EXCEPT ![p] = c]
  /\ epw' = [epw EXCEPT ![p] = ""]
  /\ entries' = [entries EXCEPT ![p] = <<>>]
  /\ loaded' = [loaded EXCEPT ![p] = <<>>]
  /\ outcome' = [outcome EXCEPT ![p] = "running"]
  /\ pre' = [pre EXCEPT ![p] = [exists |-> fileExists, bytes |-> fileBytes]]
  /\ stale' = [stale EXCEPT ![p] = FALSE]
  /\ UNCHANGED <<fileVars, clipboard, saved, saves, last>>

\* init: store_exists() and the password prompt (main.rs 110-120).
InitCheck(p, pr, homeOk) ==
  /\ pc[p] = "init"
  /\ IF ~store_exists(homeOk, fileExists).ok
       THEN Exit(p, "store_check_failed") /\ UNCHANGED epw
     ELSE IF ~pr.ok
       THEN Exit(p, "prompt_failed") /\ UNCHANGED epw
     ELSE /\ pc' = [pc EXCEPT ![p] = "init_write"]
          /\ outcome' = [outcome EXCEPT ![p] =
                           IF store_exists(homeOk, fileExists).exists
                             THEN "already_exists" ELSE "running"]
          /\ epw' = [epw EXCEPT ![p] = pr.pw]
  /\ UNCHANGED <<fileVars, clipboard, cmd, entries, loaded, pre, stale, saved, saves, last>>

\* init: write_store(&vec![], &encryption_password) (main.rs 121-128).
InitWrite(p, nonce, env) ==
  /\ pc[p] = "init_write"
  /\ LET w == write_store(env.homeOk, fileExists, fileBytes, <<>>, epw[p], nonce, env.io)
     IN /\ MainWrites(p, w, <<>>, nonce)
        /\ Exit(p, IF w.kind = "Ok" THEN "created" ELSE "create_failed")
  /\ UNCHANGED <<clipboard, cmd, epw, entries, loaded, pre, saves, last>>

\* Every other command: the password prompt and load_store (main.rs 131-138).
LoadStep(p, pr, env) ==
  /\ pc[p] = "load"
  /\ IF ~pr.ok
       THEN Exit(p, "prompt_failed") /\ UNCHANGED <<epw, entries, loaded>>
     ELSE LET r == load_store(env.homeOk, fileExists, fileBytes, env.readOk, pr.pw)
          IN /\ epw' = [epw EXCEPT ![p] = pr.pw]
             /\ IF r.kind = "Ok"
                  THEN /\ pc' = [pc EXCEPT ![p] = "command"]
                       /\ entries' = [entries EXCEPT ![p] = r.entries]
                       /\ loaded' = [loaded EXCEPT ![p] = r.entries]
                       /\ UNCHANGED outcome
                  ELSE Exit(p, r.kind) /\ UNCHANGED <<entries, loaded>>
  /\ UNCHANGED <<fileVars, clipboard, cmd, pre, stale, saved, saves, last>>

\* Variant: add reads the file again and appends to what it holds now.
AddStep_Rereads(p, pr, nonce, env) ==
  /\ pc[p] = "command" /\ cmd[p].kind = "add"
  /\ LET now == load_store(TRUE, fileExists, fileBytes, TRUE, epw[p])
         base == IF now.kind = "Ok" THEN now.entries ELSE entries[p]
     IN /\ Len(base) < MaxEntries
        /\ IF ~pr.ok
             THEN Exit(p, "prompt_failed") /\ UNCHANGED <<fileVars, entries, cmd, stale, saved>>
           ELSE LET es == Append(base,
                                 Entry(cmd[p].name, cmd[p].username, pr.pw,
                                       unwrap_or_default(cmd[p].comments)))
                    w == write_store(env.homeOk, fileExists, fileBytes, es, epw[p], nonce, env.io)
                IN /\ entries' = [entries EXCEPT ![p] = es]
                   /\ cmd' = [cmd EXCEPT ![p].password = pr.pw]
                   /\ MainWrites(p, w, es, nonce)
                   /\ Exit(p, IF w.kind = "Ok" THEN "added" ELSE "save_failed")
  /\ UNCHANGED <<clipboard, epw, loaded, pre, saves, last>>

\* add (main.rs 141-159).
AddStep(p, pr, nonce, env) ==
  /\ pc[p] = "command" /\ cmd[p].kind = "add"
  /\ Len(entries[p]) < MaxEntries    \* collections of the model hold at most MaxEntries
  /\ IF ~pr.ok
       THEN Exit(p, "prompt_failed") /\ UNCHANGED <<fileVars, entries, cmd, stale, saved>>
     ELSE LET es == Append(entries[p],
                           Entry(cmd[p].name, cmd[p].username, pr.pw,
                                 unwrap_or_default(cmd[p].comments)))
              w == write_store(env.homeOk, fileExists, fileBytes, es, epw[p], nonce, env.io)
          IN /\ entries' = [entries EXCEPT ![p] = es]
             /\ cmd' = [cmd EXCEPT ![p].password = pr.pw]
             /\ MainWrites(p, w, es, nonce)
             /\ Exit(p, IF w.kind = "Ok" THEN "added" ELSE "save_failed")
  /\ UNCHANGED <<clipboard, epw, loaded, pre, saves, last>>

\* search (main.rs 160-188); `matched` is the fuzzy matcher's answer.
SearchStep(p, matched) ==
  /\ pc[p] = "command" /\ cmd[p].kind = "search"
  /\ Exit(p, IF entries[p] = <<>> THEN "store_empty"
             ELSE IF cmd[p].term = <<>> \/ matched THEN "listed"
             ELSE "no_match")
  /\ UNCHANGED <<fileVars, clipboard, cmd, epw, entries, loaded, pre, stale, saved,
                 saves, last>>

\* copy (main.rs 189-212); clipOk: the clipboard could be opened and set.
CopyStep(p, clipOk) ==
  /\ pc[p] = "command" /\ cmd[p].kind = "copy"
  /\ LET i == CopyMatch(entries[p], cmd[p].name)
     IN IF i = 0 THEN Exit(p, "no_match") /\ UNCHANGED clipboard
        ELSE IF ~clipOk THEN Exit(p, "clipboard_failed") /\ UNCHANGED clipboard
        ELSE /\ clipboard' = (IF cmd[p].what = "Username" THEN entries[p][i].username
                              ELSE entries[p][i].password)
             /\ Exit(p, "copied")
  /\ UNCHANGED <<fileVars, cmd, epw, entries, loaded, pre, stale, saved, saves, last>>

\* remove (main.rs 213-229).
RemoveStep(p, nonce, env) ==
  /\ pc[p] = "command" /\ cmd[p].kind = "remove"
  /\ LET es == RemoveFilter(entries[p], cmd[p].name)
     IN /\ entries' = [entries EXCEPT ![p] = es]
        /\ IF Len(es) = Len(entries[p])
             THEN Exit(p, "no_match") /\ UNCHANGED <<fileVars, stale, saved>>
             ELSE LET w == write_store(env.homeOk, fileExists, fileBytes, es, epw[p], nonce, env.io)
                  IN /\ MainWrites(p, w, es, nonce)
                     /\ Exit(p, IF w.kind = "Ok" THEN "removed" ELSE "save_failed")
  /\ UNCHANGED <<clipboard, cmd, epw, loaded, pre, saves, last>>

\* No subcommand (main.rs 230-233).
UnrecognizedStep(p) ==
  /\ pc[p] = "command" /\ cmd[p].kind = "none"
  /\ Exit(p, "unrecognized")
  /\ UNCHANGED <<fileVars, clipboard, cmd, epw, entries, loaded, pre, stale, saved,
                 saves, last>>

\* One invocation at a time.
Next ==
  \/ \E c \in Commands :
       (\A q \in Procs : pc[q] \in {"idle", "done"}) /\ Start(1, c)
  \/ \E p \in Procs, pr \in StorePrompts, homeOk \in BOOLEAN : InitCheck(p, pr, homeOk)
  \/ \E p \in Procs, nonce \in Nonces, env \in EnvOutcomes : InitWrite(p, nonce, env)
  \/ \E p \in Procs, pr \in StorePrompts, env \in ReadOutcomes : LoadStep(p, pr, env)
  \/ \E p \in Procs, pr \in EntryPrompts, nonce \in Nonces, env \in EnvOutcomes :
       AddStep(p, pr, nonce, env)
  \/ \E p \in Procs, matched \in BOOLEAN : SearchStep(p, matched)
  \/ \E p \in Procs, clipOk \in BOOLEAN : CopyStep(p, clipOk)
  \/ \E p \in Procs, nonce \in Nonces, env \in EnvOutcomes : RemoveStep(p, nonce, env)
  \/ \E p \in Procs : UnrecognizedStep(p)

Spec == Init /\ [][Next]_vars

\* Two invocations of add or remove, started at any time, on a store that
\* `init` created under the first password.
RaceInit ==
  /\ clipboard = <<>>
  /\ pc = [p \in Procs |-> "idle"]
  /\ cmd = [p \in Procs |-> NoCmd]
  /\ epw = [p \in Procs |-> ""]
  /\ entries = [p \in Procs |-> <<>>]
  /\ outcome = [p \in Procs |-> "none"]
  /\ loaded = [p \in Procs |-> <<>>]
  /\ pre = [p \in Procs |-> NoFile]
  /\ stale = [p \in Procs |-> FALSE]
  /\ saves = 0
  /\ last = NoCall
  /\ \E password \in {CHOOSE x \in Passwords : TRUE}, nonce \in {CHOOSE n \in Nonces : TRUE} :
       /\ fileExists = TRUE
       /\ fileBytes = DiskImage[<<>>, password, nonce]
       /\ saved = [NoSave EXCEPT !.valid = TRUE, !.pw = password, !.nonce = nonce,
                                 !.bytes = DiskImage[<<>>, password, nonce]]

RaceNext ==
  \/ \E p \in Procs, c \in AddCommands \cup RemoveCommands :
       pc[p] = "idle" /\ Start(p, c)
  \/ \E p \in Procs, pr \in StorePrompts, env \in ReadOutcomes : LoadStep(p, pr, env)
  \/ \E p \in Procs, pr \in EntryPrompts, nonce \in Nonces, env \in EnvOutcomes :
       AddStep(p, pr, nonce, env)
  \/ \E p \in Procs, nonce \in Nonces, env \in EnvOutcomes : RemoveStep(p, nonce, env)

SpecRace == RaceInit /\ [][RaceNext]_vars

\* ================================================================== claims
Typed == {"Ok", "NotFound", "DecryptError", "DecodeError", "IOError", "PathError"}

\* The load_store call recorded in `last` got as far as reading the file.
LoadReadFile == last.op = "load" /\ last.kind \notin {"PathError", "NotFound", "IOError"}

\* b is a with exactly one byte of the ciphertext region changed.
OneCiphertextByteChanged(a, b) ==
  /\ Len(a) = Len(b)
  /\ \E i \in (NonceLen + 1)..Len(a) :
       /\ a[i] # b[i]
       /\ \A j \in 1..Len(a) : j # i => a[j] = b[j]

\* C2 (round trip): a load_store(P) that reads the file the last successful
\* write_store(E, P) wrote, with no write in between, returns exactly E: the
\* same entries, field for field, in the same order.
C2_RoundTrip ==
  (LoadReadFile /\ Intact /\ last.pw = saved.pw)
    => (last.kind = "Ok" /\ last.entries = saved.entries)

\* A collection with a repeated entry, and with quotes and backslashes in
\* its fields, was written and read back.
C2_Witness ==
  /\ LoadReadFile /\ Intact /\ last.pw = saved.pw
  /\ Len(last.entries) = MaxEntries
  /\ last.entries[1] = last.entries[2]
  /\ Backslash \in {last.entries[1].password[i] : i \in 1..Len(last.entries[1].password)}

\* C3 (authentication failure): a load_store that reads a file written by
\* write_store under P1 returns a decryption error, and no entries, when it is
\* called with another password or when one byte of the file's ciphertext
\* region (offset 12 to the end) was changed since the write.
C3_AuthFailureIsDecryptError ==
  (/\ LoadReadFile /\ saved.valid /\ fileExists
   /\ \/ fileBytes = saved.bytes /\ last.pw # saved.pw
      \/ OneCiphertextByteChanged(saved.bytes, fileBytes))
    => (last.kind = "DecryptError" /\ last.entries = <<>>)

\* A byte of the ciphertext proper (not of the tag) of a file holding an entry
\* was changed, and the file was loaded with the password it was written with.
C3_Witness ==
  /\ LoadReadFile /\ saved.valid /\ fileExists /\ last.pw = saved.pw
  /\ saved.entries # <<>>
  /\ OneCiphertextByteChanged(saved.bytes, fileBytes)
  /\ \E i \in (NonceLen + 1)..(Len(fileBytes) - TagLen) : fileBytes[i] # saved.bytes[i]
  /\ last.kind = "DecryptError"

\* C4 (typed outcome): every load_store call returns entries or one error
\* value to its caller, whatever the file holds; it never aborts.
C4_LoadReturnsTypedOutcome ==
  last.op = "load" => last.kind \in Typed

\* C5 (failed calls change nothing): load_store never changes the file, and a
\* write_store that returns an error leaves the file as it was before the call.
C5_FailedCallLeavesFile ==
  /\ last.op = "load" => ~last.changed
  /\ (last.op = "save" /\ last.kind # "Ok") => ~last.changed

\* C7 as claimed (nonce uniqueness): two write_store calls never use the same
\* nonce, so two successive saves of the same entries under the same password
\* leave different files.
C7_NoncesNeverRepeat ==
  (saved.valid /\ saved.prev.valid)
    => /\ saved.nonce # saved.prev.nonce
       /\ saved.prev.same => saved.bytes # saved.prev.bytes

\* C7 as amended: each write_store puts the nonce it drew in the first 12
\* bytes of the file; two successive saves of the same entries under the same
\* password leave different files exactly when their nonces differ, and each of
\* the two files loads back to those entries under that password.
C7_FilesDifferWithNonces ==
  (saved.valid /\ saved.prev.valid /\ saved.prev.same)
    => /\ take(saved.bytes, NonceLen) = saved.nonce
       /\ take(saved.prev.bytes, NonceLen) = saved.prev.nonce
       /\ (saved.bytes # saved.prev.bytes) <=> (saved.nonce # saved.prev.nonce)
       /\ load_store(TRUE, TRUE, saved.bytes, TRUE, saved.pw) = Result("Ok", saved.entries)
       /\ load_store(TRUE, TRUE, saved.prev.bytes, TRUE, saved.pw) = Result("Ok", saved.entries)

\* Two successive saves of the same non-empty collection drew different nonces.
C7_Witness ==
  /\ saved.valid /\ saved.prev.valid /\ saved.prev.same
  /\ saved.entries # <<>>
  /\ saved.nonce # saved.prev.nonce
  /\ saved.bytes # saved.prev.bytes

\* C8 (re-keying): write_store(E, P2) over a file written under P1 # P2 needs
\* nothing from the old file and succeeds; afterwards load_store(P2) returns
\* exactly E and load_store(P1) returns a decryption error.
C8_SaveRekeys ==
  /\ \A password \in Passwords, nonce \in Nonces :
       write_store(TRUE, fileExists, fileBytes, <<>>, password, nonce, IoOk).kind = "Ok"
  /\ (/\ LoadReadFile /\ Intact
      /\ saved.prev.valid /\ saved.prev.replaced /\ saved.prev.pw # saved.pw)
       => /\ last.pw = saved.pw => (last.kind = "Ok" /\ last.entries = saved.entries)
          /\ last.pw = saved.prev.pw => (last.kind = "DecryptError" /\ last.entries = <<>>)

\* A file written under one password was replaced under another, and then
\* loaded with the first password.
C8_Witness ==
  /\ LoadReadFile /\ Intact
  /\ saved.prev.valid /\ saved.prev.replaced /\ saved.prev.pw # saved.pw
  /\ saved.entries # <<>>
  /\ last.pw = saved.prev.pw
  /\ last.kind = "DecryptError"

\* The file as load_store returns it under a password, the environment willing.
Stored(password) == load_store(TRUE, fileExists, fileBytes, TRUE, password)

SameNameIgnoringCase(a, b) ==
  /\ Len(a) = Len(b)
  /\ \A i \in 1..Len(a) : LowerChar(a[i]) = LowerChar(b[i])

\* The entries of es whose names differ from name when both are lower-cased,
\* in their order.
RECURSIVE Without(_, _)
Without(es, name) ==
  IF es = <<>> THEN <<>>
  ELSE IF SameNameIgnoringCase(Head(es).name, name) THEN Without(Tail(es), name)
  ELSE <<Head(es)>> \o Without(Tail(es), name)

\* C1 (init is non-destructive): an init invocation started while the vault
\* file exists performs no write: when it ends the file is what it was.
C1_InitKeepsExistingStore ==
  \A p \in Procs :
    (pc[p] = "done" /\ cmd[p].kind = "init" /\ pre[p].exists)
      => (fileExists /\ fileBytes = pre[p].bytes)

\* C6 (only init creates the file): an add, search, copy or remove invocation
\* (or one without subcommand) started while the file is absent leaves it
\* absent and never succeeds: load_store fails with NotFound, unless the
\* invocation ended before the existence check (the prompt failed, or the home
\* directory is unknown). The file comes into being only in init's write.
C6_AbsentStaysAbsent ==
  \A p \in Procs :
    (pc[p] = "done" /\ cmd[p].kind # "init" /\ ~pre[p].exists)
      => /\ ~fileExists
         /\ outcome[p] \in {"NotFound", "PathError", "prompt_failed"}

C6_CreatedByInit ==
  (~fileExists /\ fileExists') => (\E p \in Procs : pc[p] = "init_write" /\ pc'[p] = "done")

C6_OnlyInitCreates == [][C6_CreatedByInit]_vars /\ []C6_AbsentStaysAbsent

\* An add on an absent store ended with NotFound.
C6_Witness ==
  \E p \in Procs :
    /\ pc[p] = "done" /\ cmd[p].kind = "add" /\ ~pre[p].exists
    /\ outcome[p] = "NotFound" /\ ~fileExists

C10_LastWriterWins ==
  \A p \in Procs :
    (saved.valid /\ saved.writer = p /\ Intact /\ pc[p] = "done")
      => /\ Stored(epw[p]) = Result("Ok", entries[p])
         /\ cmd[p].kind = "add" =>
              entries[p] = Append(loaded[p],
                                  Entry(cmd[p].name, cmd[p].username, cmd[p].password,
                                        unwrap_or_default(cmd[p].comments)))
         /\ cmd[p].kind = "remove" => entries[p] = Without(loaded[p], cmd[p].name)

\* Both adds reported success, the second writer had loaded before the first
\* wrote, and the file lacks the first writer's entry.
C10_Witness ==
  \E p \in Procs, q \in Procs :
    /\ p # q
    /\ pc[p] = "done" /\ pc[q] = "done"
    /\ cmd[p].kind = "add" /\ cmd[q].kind = "add"
    /\ outcome[p] = "added" /\ outcome[q] = "added"
    /\ stale[p] /\ saved.writer = p /\ Intact
    /\ loaded[p] = loaded[q]
    /\ Stored(epw[p]) = Result("Ok", entries[p])
    /\ \A i \in 1..Len(entries[p]) : entries[p][i].name # cmd[q].name

====
